---- MODULE Spec2Model ----
(***************************************************************************)
(* struct_deser: the StructDeser derive (struct_deser-derive/src/lib.rs)   *)
(* and the codec traits and their primitive impls (src/lib.rs).            *)
(*                                                                         *)
(* A derive input (ast) is expanded by impl_struct_deser into generated    *)
(* impls (gen), the generated impls are type-checked against the trait     *)
(* impls of the library, and the resulting from_bytes / into_bytes are run *)
(* on caller-allocated buffers.                                            *)
(*                                                                         *)
(* Values.  u8 is 0..255 and i8 is -128..127.  A 2/4/8-byte integer is     *)
(* held as its base-256 digits, most significant first (two's complement   *)
(* for the signed types): a u64 does not fit the integers of TLC.          *)
(* A byte block is the sequence of its bytes and a record is the sequence  *)
(* of its field values in declaration order.                               *)
(***************************************************************************)
EXTENDS Integers, Sequences, FiniteSets, TLC

VARIABLES
    impls,     \* the impls the derive generated for the record types of Decls
    ast,       \* the syn::DeriveInput handed to the derive
    gen,       \* what impl_struct_deser returned (or the panic it raised)
    pc,        \* "input", "rejected", "derived", "compile_error", "compiled",
               \* "alloc", "encoded", "decoded", "panicked"
    bytes,     \* the caller's buffer
    before,    \* the buffer as it was when the last call started
    self,      \* the record passed to into_bytes
    out,       \* the record returned by from_bytes
    last       \* the last runtime calls: "none", "into_bytes", "from_bytes",
               \* "into_bytes, from_bytes" (from_bytes on the buffer just written)

vars == <<impls, ast, gen, pc, bytes, before, self, out, last>>

(***************************************************************************)
(* Bounds of the model.                                                    *)
(***************************************************************************)
\* longest field list of the enumerated derive inputs
MaxFields == 2
\* most struct-level attributes of the enumerated derive inputs
MaxAttrs == 2

(***************************************************************************)
(* Types.  [k |-> "u16", n |-> 0] is a scalar, [k |-> "arr", n |-> 3] is   *)
(* [u8; 3], and any other k names a record type declared in the program.   *)
(***************************************************************************)
T(k) == [k |-> k, n |-> 0]
Arr(n) == [k |-> "arr", n |-> n]

OrderedInts == {"u16", "i16", "u32", "i32", "u64", "i64"}
ByteInts == {"u8", "i8"}

\* syn's view of one field: ident is "" for a tuple field; attrs are the
\* words of its attributes, in order.
Field(ident, ty, attrs) == [ident |-> ident, ty |-> ty, attrs |-> attrs]

Lit(kind, text) == [kind |-> kind, text |-> text]
NoLit == Lit("None", "")
\* name = lit inside #[struct_deser(...)]
NameValue(name, lit) == [name |-> name, lit |-> lit]
\* #[name(nested...)] when list, any other form of #[name ...] otherwise
Attribute(name, list, nested) == [name |-> name, list |-> list, nested |-> nested]

DeriveInput(body, attrs, fields) == [body |-> body, attrs |-> attrs, fields |-> fields]

Names == <<"a", "b", "c", "d", "e", "f", "g", "h", "i", "j", "k", "l", "m", "n">>

\* fields of a braced struct get names, fields of a tuple struct do not
NamedFields(fs) == [i \in 1..Len(fs) |-> Field(Names[i], fs[i].ty, fs[i].attrs)]
TupleFields(fs) == [i \in 1..Len(fs) |-> Field("", fs[i].ty, fs[i].attrs)]

Struct(attrs, fs) == DeriveInput("Struct", attrs, NamedFields(fs))
Tuple(attrs, fs) == DeriveInput("Tuple", attrs, TupleFields(fs))

F(k, attrs) == Field("", T(k), attrs)

(***************************************************************************)
(* get_byte_order: scans the attributes of a field for le / be.            *)
(***************************************************************************)
get_byte_order_word(byte_order, word) ==
    LET bo1 == IF word = "be" THEN "BE" ELSE byte_order
        \* byte_order = Some(BE); if byte_order == Some(LE) { panic }
        p1 == word = "be" /\ bo1 = "LE"
        bo2 == IF word = "le" THEN "LE" ELSE bo1
        \* byte_order = Some(LE); if byte_order == Some(BE) { panic }
        p2 == word = "le" /\ bo2 = "BE"
    IN  [bo |-> bo2, panic |-> p1 \/ p2]

RECURSIVE get_byte_order_from(_, _)
get_byte_order_from(attrs, byte_order) ==
    IF attrs = <<>> THEN [bo |-> byte_order, panic |-> FALSE]
    ELSE LET s == get_byte_order_word(byte_order, Head(attrs))
         IN  IF s.panic THEN s ELSE get_byte_order_from(Tail(attrs), s.bo)

\* variant: a field without a marker is taken as little-endian
get_byte_order_default_le(attrs) == get_byte_order_from(attrs, "LE")

get_byte_order(attrs) == get_byte_order_from(attrs, "None")

(***************************************************************************)
(* impl_identifier: the optional Identifier impl.                          *)
(***************************************************************************)
\* syn::parse_type and syn::parse_expr on the strings the inputs use
parse_type(text) == text \in {"u8", "u16", "u32"}
parse_expr(text) == text \in {"42", "47"}

NoIdentifier == [present |-> FALSE, ty |-> "", val |-> ""]

RECURSIVE scan_nested(_, _, _)
scan_nested(nested, val, ty) ==
    IF nested = <<>> THEN [val |-> val, ty |-> ty]
    ELSE LET item == Head(nested)
             val1 == IF item.name = "identifier" THEN item.lit ELSE val
             ty1 == IF item.name = "identifier_type" THEN item.lit ELSE ty
         IN  scan_nested(Tail(nested), val1, ty1)

\* variant: an incomplete identifier is taken as no identifier
match_identifier_lenient(val, ty) ==
    IF val.kind = "Str" /\ ty.kind = "Str" /\ parse_type(ty.text) /\ parse_expr(val.text)
    THEN [panic |-> "", done |-> TRUE,
          impl |-> [present |-> TRUE, ty |-> ty.text, val |-> val.text]]
    ELSE [panic |-> "", done |-> FALSE, impl |-> NoIdentifier]

match_identifier(val, ty) ==
    CASE val.kind = "Str" /\ ty.kind = "Str" ->
           IF ~parse_type(ty.text)
           THEN [panic |-> "expected type", done |-> TRUE, impl |-> NoIdentifier]
           ELSE IF ~parse_expr(val.text)
           THEN [panic |-> "expected expression", done |-> TRUE, impl |-> NoIdentifier]
           ELSE [panic |-> "", done |-> TRUE,
                 impl |-> [present |-> TRUE, ty |-> ty.text, val |-> val.text]]
      [] val.kind = "None" /\ ty.kind = "None" ->
           [panic |-> "", done |-> FALSE, impl |-> NoIdentifier]
      [] val.kind # "None" /\ ty.kind # "None" ->
           [panic |-> "Identifier and it's type must be inside string",
            done |-> TRUE, impl |-> NoIdentifier]
      [] OTHER ->
           [panic |-> "Both identifier and type must be specified or none of them",
            done |-> TRUE, impl |-> NoIdentifier]

RECURSIVE impl_identifier(_)
impl_identifier(attrs) ==
    IF attrs = <<>> THEN [panic |-> "", impl |-> NoIdentifier]
    ELSE LET attr == Head(attrs)
         IN  IF attr.name = "struct_deser" /\ attr.list
             THEN LET s == scan_nested(attr.nested, NoLit, NoLit)
                      m == match_identifier(s.val, s.ty)
                  IN  IF m.done THEN [panic |-> m.panic, impl |-> m.impl]
                      ELSE impl_identifier(Tail(attrs))
             ELSE impl_identifier(Tail(attrs))

(***************************************************************************)
(* impl_struct_deser: the expansion.  byte_len is the token list           *)
(* 0 + <T1>::BYTE_LEN + ... kept as the sequence of the types summed;      *)
(* a byte slice bytes[(lo)..(hi)] keeps both of its bound expressions.     *)
(***************************************************************************)
field_accessor(field, field_no) ==
    IF field.ident # "" THEN [name |-> field.ident, no |-> -1]
    ELSE [name |-> "", no |-> field_no]

\* variant: the end of the slice is the width alone, bytes[(lo)..(<ty>::BYTE_LEN)]
byte_slice_width_only(byte_len, ty) == [lo |-> byte_len, hi |-> <<ty>>]

byte_slice(byte_len, ty) == [lo |-> byte_len, hi |-> Append(byte_len, ty)]

\* variant: byte_len is overwritten with the last width instead of extended
byte_len_overwrite(byte_len, ty) == <<ty>>

byte_len_append(byte_len, ty) == Append(byte_len, ty)

\* deser_impl, as appended to deser_body: [ident:] Trait::from_bytes(&slice),
\* the trait being FromBytes for None and FromBytesOrdered::<bo> for Some(bo);
\* ty is the type of the field the value goes to
deser_impl(field, byte_len, byte_order) ==
    [ident |-> field.ident,
     slice |-> byte_slice(byte_len, field.ty),
     ty |-> field.ty,
     bo |-> byte_order]

\* ser_impl, as appended to ser_body: Trait::into_bytes(&self.accessor, &mut slice)
ser_impl(field, field_no, byte_len, byte_order) ==
    [accessor |-> field_accessor(field, field_no),
     slice |-> byte_slice(byte_len, field.ty),
     ty |-> field.ty,
     bo |-> byte_order]

NoGen == [panic |-> "", identifier |-> NoIdentifier, body |-> "",
          deser_body |-> <<>>, ser_body |-> <<>>, byte_len |-> <<>>]

RECURSIVE fields_loop(_, _, _)
fields_loop(fields, field_no, st) ==
    IF field_no >= Len(fields) THEN st
    ELSE LET field == fields[field_no + 1]
             byte_order == get_byte_order(field.attrs)
         IN  IF byte_order.panic
             THEN [st EXCEPT !.panic = "Conflicting byte order: you can't specify both Little and Big endian"]
             ELSE fields_loop(fields, field_no + 1,
                    [st EXCEPT
                       !.deser_body = Append(@, deser_impl(field, st.byte_len, byte_order.bo)),
                       !.ser_body = Append(@, ser_impl(field, field_no, st.byte_len, byte_order.bo)),
                       !.byte_len = byte_len_append(@, field.ty)])

impl_struct_deser(input) ==
    IF input.body \notin {"Struct", "Tuple", "Unit"}
    THEN [NoGen EXCEPT !.panic = "The type must be a struct"]
    ELSE LET id == impl_identifier(input.attrs)
         IN  IF id.panic # "" THEN [NoGen EXCEPT !.panic = id.panic]
             ELSE LET st == fields_loop(input.fields, 0,
                                [NoGen EXCEPT !.identifier = id.impl, !.body = input.body])
                  IN  IF st.panic # "" THEN [NoGen EXCEPT !.panic = st.panic]
                      ELSE IF input.body = "Unit"
                      THEN [NoGen EXCEPT !.panic = "(De)serializing empty struct doesn't make sense"]
                      ELSE st

(***************************************************************************)
(* The library: SerializedByteLen, FromBytes / IntoBytes and               *)
(* FromBytesOrdered / IntoBytesOrdered, and the types that implement them. *)
(***************************************************************************)
\* Record types declared (and derived) elsewhere in the program, usable as
\* the type of a field.
Decls ==
    [Inner |-> Struct(<<>>, <<F("u8", <<>>), F("u16", <<"be">>)>>),
     Wrap |-> Tuple(<<>>, <<F("Inner", <<>>), F("i16", <<"le">>)>>)]

\* variant: the impls are generic over the length of the array
impl_byte_arr_any(len) == len >= 0

\* impl_byte_arr!(0) ... impl_byte_arr!(256), then the powers of two
impl_byte_arr(len) ==
    \/ len \in 0..256
    \/ len \in {512, 1024, 2048, 4096, 8192, 16384, 32768, 65536, 131072,
                262144, 524288, 1048576, 2097152, 4194304}

\* impl_from_into_bytes!(u16, 2, ...) ... (i64, 8, ...)
impl_from_into_bytes(ty) == ty.k \in OrderedInts

RECURSIVE type_checks(_)
\* FromBytes + IntoBytes are implemented for ty
impl_FromBytes(ty) ==
    \/ ty.k \in ByteInts
    \/ ty.k = "arr" /\ impl_byte_arr(ty.n)
    \/ /\ ty.k \in DOMAIN Decls
       /\ impls[ty.k].panic = ""
       /\ type_checks(impls[ty.k])

\* variant: the single-byte integers implement the ordered traits too
impl_FromBytesOrdered_bytes(ty) == impl_from_into_bytes(ty) \/ ty.k \in ByteInts

\* FromBytesOrdered + IntoBytesOrdered are implemented for ty
impl_FromBytesOrdered(ty) == impl_from_into_bytes(ty)

\* the trait a generated field call names must be implemented for its type
field_type_checks(e) ==
    IF e.bo = "None" THEN impl_FromBytes(e.ty) ELSE impl_FromBytesOrdered(e.ty)

\* the generated impls compile
type_checks(g) ==
    /\ \A i \in 1..Len(g.deser_body) : field_type_checks(g.deser_body[i])
    /\ \A i \in 1..Len(g.ser_body) : field_type_checks(g.ser_body[i])

\* the value of a token list 0 + <T1>::BYTE_LEN + ... + <Tn>::BYTE_LEN, each
\* term being the BYTE_LEN of the impl SerializedByteLen of its type
RECURSIVE sum_byte_len(_)
sum_byte_len(tokens) ==
    IF tokens = <<>> THEN 0
    ELSE LET ty == tokens[Len(tokens)]
         IN  sum_byte_len(SubSeq(tokens, 1, Len(tokens) - 1))
             + CASE ty.k \in {"u8", "i8"}   -> 1
                 [] ty.k \in {"u16", "i16"} -> 2
                 [] ty.k \in {"u32", "i32"} -> 4
                 [] ty.k \in {"u64", "i64"} -> 8
                 [] ty.k = "arr"            -> ty.n
                 [] OTHER -> sum_byte_len(impls[ty.k].byte_len)

\* <ty as SerializedByteLen>::BYTE_LEN
type_BYTE_LEN(ty) == sum_byte_len(<<ty>>)

\* const BYTE_LEN: usize = #byte_len of a derived impl
BYTE_LEN(g) == sum_byte_len(g.byte_len)

(***************************************************************************)
(* Primitive codecs.                                                       *)
(***************************************************************************)
RECURSIVE Reverse(_)
Reverse(s) == IF s = <<>> THEN <<>> ELSE Append(Reverse(Tail(s)), Head(s))

\* s with its first Len(w) bytes replaced by w
Overwrite(s, w) == w \o SubSeq(s, Len(w) + 1, Len(s))

Failed(b) == [panic |-> TRUE, bytes |-> b]
Written(b) == [panic |-> FALSE, bytes |-> b]
NoValue == [panic |-> TRUE, val |-> <<>>]
Value(v) == [panic |-> FALSE, val |-> v]

\* impl FromBytes for u8 / i8
u8_from_bytes(b) == IF Len(b) < 1 THEN NoValue ELSE Value(b[1])
i8_from_bytes(b) ==
    IF Len(b) < 1 THEN NoValue
    ELSE Value(IF b[1] >= 128 THEN b[1] - 256 ELSE b[1])

\* impl IntoBytes for u8 / i8
u8_into_bytes(v, b) == IF Len(b) < 1 THEN Failed(b) ELSE Written(Overwrite(b, <<v>>))
i8_into_bytes(v, b) == IF Len(b) < 1 THEN Failed(b) ELSE Written(Overwrite(b, <<v % 256>>))

\* impl FromBytes / IntoBytes for [u8; len]: copy_from_slice
arr_from_bytes(len, b) == IF Len(b) # len THEN NoValue ELSE Value(b)
arr_into_bytes(v, b) == IF Len(b) # Len(v) THEN Failed(b) ELSE Written(v)

\* variant: the reader ignores BO and reads big-endian
ordered_from_bytes_be(ty, bo, b) ==
    LET n == type_BYTE_LEN(ty)
    IN  IF Len(b) < n THEN NoValue ELSE Value(SubSeq(b, 1, n))

\* impl FromBytesOrdered: BO::read_uN / read_iN on the first N bytes
ordered_from_bytes(ty, bo, b) ==
    LET n == type_BYTE_LEN(ty)
    IN  IF Len(b) < n THEN NoValue
        ELSE Value(IF bo = "BE" THEN SubSeq(b, 1, n) ELSE Reverse(SubSeq(b, 1, n)))

\* variant: the writer takes LE for BE and BE for LE
ordered_into_bytes_swapped(ty, bo, v, b) ==
    LET n == type_BYTE_LEN(ty)
    IN  IF Len(b) < n THEN Failed(b)
        ELSE Written(Overwrite(b, IF bo = "BE" THEN Reverse(v) ELSE v))

\* impl IntoBytesOrdered: BO::write_uN / write_iN into the first N bytes
ordered_into_bytes(ty, bo, v, b) ==
    LET n == type_BYTE_LEN(ty)
    IN  IF Len(b) < n THEN Failed(b)
        ELSE Written(Overwrite(b, IF bo = "BE" THEN v ELSE Reverse(v)))

(***************************************************************************)
(* The derived from_bytes and into_bytes.                                  *)
(***************************************************************************)
\* &bytes[lo..hi]
index_range(b, lo, hi) ==
    IF lo > hi \/ hi > Len(b) THEN NoValue ELSE Value(SubSeq(b, lo + 1, hi))

\* b with b[lo..hi] replaced by w
store_range(b, lo, hi, w) == SubSeq(b, 1, lo) \o w \o SubSeq(b, hi + 1, Len(b))

\* self.#field_accessor, self being the field values in declaration order:
\* a tuple field by its number, a named field by its name
access(g, rec, accessor) ==
    IF accessor.name = "" THEN rec[accessor.no + 1]
    ELSE rec[CHOOSE i \in 1..Len(Names) : Names[i] = accessor.name]

\* variant: only a buffer that is too short is refused
length_ok_at_least(g, b) == Len(b) >= BYTE_LEN(g)

\* assert_eq!(bytes.len(), <Self as SerializedByteLen>::BYTE_LEN)
length_ok(g, b) == Len(b) = BYTE_LEN(g)

RECURSIVE from_bytes(_, _), into_bytes(_, _, _)

\* the call generated for one field of from_bytes
field_from_bytes(e, b) ==
    LET s == index_range(b, sum_byte_len(e.slice.lo), sum_byte_len(e.slice.hi))
    IN  IF s.panic THEN NoValue
        ELSE CASE e.bo # "None"   -> ordered_from_bytes(e.ty, e.bo, s.val)
               [] e.ty.k = "u8"   -> u8_from_bytes(s.val)
               [] e.ty.k = "i8"   -> i8_from_bytes(s.val)
               [] e.ty.k = "arr"  -> arr_from_bytes(e.ty.n, s.val)
               [] OTHER -> from_bytes(impls[e.ty.k], s.val)

\* the call generated for one field of into_bytes
field_into_bytes(g, e, rec, b) ==
    LET lo == sum_byte_len(e.slice.lo)
        hi == sum_byte_len(e.slice.hi)
        s == index_range(b, lo, hi)
        v == access(g, rec, e.accessor)
        w == CASE e.bo # "None"   -> ordered_into_bytes(e.ty, e.bo, v, s.val)
               [] e.ty.k = "u8"   -> u8_into_bytes(v, s.val)
               [] e.ty.k = "i8"   -> i8_into_bytes(v, s.val)
               [] e.ty.k = "arr"  -> arr_into_bytes(v, s.val)
               [] OTHER -> into_bytes(impls[e.ty.k], v, s.val)
    IN  IF s.panic THEN Failed(b)
        ELSE [panic |-> w.panic, bytes |-> store_range(b, lo, hi, w.bytes)]

\* #name { #deser_body } and #name(#deser_body): the fields in the order written
RECURSIVE run_deser_body(_, _, _, _), run_ser_body(_, _, _, _)
run_deser_body(g, i, b, vals) ==
    IF i > Len(g.deser_body) THEN Value(vals)
    ELSE LET r == field_from_bytes(g.deser_body[i], b)
         IN  IF r.panic THEN NoValue ELSE run_deser_body(g, i + 1, b, Append(vals, r.val))

\* #ser_body: one statement per field
run_ser_body(g, i, rec, b) ==
    IF i > Len(g.ser_body) THEN Written(b)
    ELSE LET r == field_into_bytes(g, g.ser_body[i], rec, b)
         IN  IF r.panic THEN r ELSE run_ser_body(g, i + 1, rec, r.bytes)

from_bytes(g, b) == IF ~length_ok(g, b) THEN NoValue ELSE run_deser_body(g, 1, b, <<>>)

\* variant: the assert_eq! comes after #ser_body
into_bytes_check_last(g, rec, b) ==
    LET r == run_ser_body(g, 1, rec, b)
    IN  IF r.panic \/ ~length_ok(g, b) THEN Failed(r.bytes) ELSE r

\* fn into_bytes(&self, bytes: &mut [u8]) { assert_eq!(...); #ser_body }
into_bytes(g, rec, b) == IF ~length_ok(g, b) THEN Failed(b) ELSE run_ser_body(g, 1, rec, b)

(***************************************************************************)
(* Derive inputs.                                                          *)
(***************************************************************************)
\* field declarations enumerated in every combination
EnumTypes == {T("u8"), T("i8"), T("i16"), T("u64"), Arr(0), T("Inner")}
EnumMarkers == {<<>>, <<"le">>, <<"be">>, <<"le", "be">>, <<"be", "le">>}
EnumFields == {Field("", ty, m) : ty \in EnumTypes, m \in EnumMarkers}

\* braced and tuple structs of at most MaxFields such fields, no attributes
IsEnumInput(input) ==
    \E n \in 0..MaxFields : \E fs \in [1..n -> EnumFields] :
        input \in {Struct(<<>>, fs), Tuple(<<>>, fs)}

\* #[struct_deser(identifier = "42", identifier_type = "u8")]
IdAttr(val) ==
    Attribute("struct_deser", TRUE,
              <<NameValue("identifier", Lit("Str", val)),
                NameValue("identifier_type", Lit("Str", "u8"))>>)

\* tests/test_struct.rs and tests/test_tuple_struct.rs
IntegersFields ==
    <<F("u8", <<>>), F("i8", <<>>),
      F("u16", <<"be">>), F("i16", <<"be">>), F("u16", <<"le">>), F("i16", <<"le">>),
      F("u32", <<"be">>), F("i32", <<"be">>), F("u32", <<"le">>), F("i32", <<"le">>),
      F("u64", <<"be">>), F("i64", <<"be">>), F("u64", <<"le">>), F("i64", <<"le">>)>>
Integers == Struct(<<IdAttr("42")>>, IntegersFields)
IntegersTuple == Tuple(<<IdAttr("47")>>, IntegersFields)

\* tests/test_byte_order.rs: struct $name { #[le] le: $primitive, #[be] be: $primitive }
test_primitive(k) == Struct(<<>>, <<F(k, <<"le">>), F(k, <<"be">>)>>)

\* the example of the crate documentation
Packet == Struct(<<>>, <<F("u16", <<"be">>), F("u8", <<>>), F("u32", <<"le">>)>>)

\* struct Block { data: [u8; n] }
Block(n) == Struct(<<>>, <<Field("", Arr(n), <<>>)>>)
\* array lengths around the ends of the two runs of impl_byte_arr! invocations
BlockSizes == {1, 255, 256, 257, 300, 511, 512, 513, 1024}

UnitStruct == DeriveInput("Unit", <<>>, <<>>)
AnEnum == DeriveInput("Enum", <<>>, <<>>)

NamedInputs ==
    {Integers, IntegersTuple, Struct(<<>>, IntegersFields), Tuple(<<>>, IntegersFields),
     Packet, UnitStruct, AnEnum,
     Struct(<<>>, <<F("Wrap", <<>>), F("u32", <<"be">>), Field("", Arr(3), <<>>)>>),
     Tuple(<<IdAttr("42")>>, <<Field("", Arr(2), <<>>), F("Wrap", <<>>), F("i8", <<>>)>>),
     Tuple(<<>>, <<Field("", Arr(257), <<>>), Field("", Arr(4), <<>>)>>),
     Tuple(<<>>, <<Field("", Arr(256), <<>>), Field("", Arr(4), <<>>)>>),
     Struct(<<>>, <<F("Undeclared", <<>>)>>)}
    \cup {Block(n) : n \in BlockSizes}
    \cup {test_primitive(k) : k \in OrderedInts}
    \cup {Struct(<<>>, <<Field("", ty, m)>>) :
            ty \in {T(k) : k \in OrderedInts \cup ByteInts} \cup {Arr(2), T("Wrap")},
            m \in {<<>>, <<"le">>, <<"be">>}}

\* struct-level attributes, for the Identifier impl
NestedItems ==
    {NameValue("identifier", Lit("Str", "42")),
     NameValue("identifier", Lit("Str", "47")),
     NameValue("identifier", Lit("Str", "}")),
     NameValue("identifier", Lit("Int", "42")),
     NameValue("identifier_type", Lit("Str", "u8")),
     NameValue("identifier_type", Lit("Str", "}")),
     NameValue("identifier_type", Lit("Int", "8"))}
NestedLists ==
    {<<>>} \cup {<<x>> : x \in NestedItems} \cup {<<x, y>> : x, y \in NestedItems}
EnumAttrs ==
    {Attribute("struct_deser", TRUE, n) : n \in NestedLists}
    \cup {Attribute("struct_deser", FALSE, <<>>), Attribute("other", TRUE, <<>>)}

\* two structs under every list of at most MaxAttrs such attributes
IsIdentInput(input) ==
    \E n \in 0..MaxAttrs : \E attrs \in [1..n -> EnumAttrs] :
        input \in {Struct(attrs, <<F("u8", <<>>)>>),
                   Tuple(attrs, <<F("u16", <<"be">>), F("i8", <<>>)>>)}

(***************************************************************************)
(* Record values and buffers handed to the derived impls.                  *)
(***************************************************************************)
\* the base-256 digits of v in n bytes, most significant first
RECURSIVE Digits(_, _)
Digits(v, n) == IF n = 0 THEN <<>> ELSE Append(Digits(v \div 256, n - 1), v % 256)

SampleInts ==
    [u8  |-> <<42, 0, 255>>,
     i8  |-> <<43, -128, -1>>,
     u16 |-> <<42, 4660, 65535>>,
     i16 |-> <<42, -2, -32768>>,
     u32 |-> <<42, 16909060, 2147483647>>,
     i32 |-> <<42, -2, -2147483647>>,
     u64 |-> <<42, 16909060, 2147483647>>,
     i64 |-> <<42, -2, -2147483647>>]
SampleIdx == DOMAIN SampleInts.u8

RECURSIVE Sample(_, _)
Sample(ty, s) ==
    CASE ty.k \in ByteInts    -> SampleInts[ty.k][s]
      [] ty.k \in OrderedInts -> Digits(SampleInts[ty.k][s], type_BYTE_LEN(ty))
      [] ty.k = "arr"         -> [i \in 1..ty.n |-> (16 * s + i) % 256]
      [] OTHER -> [i \in 1..Len(Decls[ty.k].fields) |-> Sample(Decls[ty.k].fields[i].ty, s)]

\* field i takes sample s + (i - 1) * step, cyclically
SampleRecord(g, s, step) ==
    [i \in 1..Len(g.ser_body) |->
        Sample(g.ser_body[i].ty, ((s - 1 + (i - 1) * step) % Cardinality(SampleIdx)) + 1)]
RecordValues(g) == {SampleRecord(g, s, step) : s \in SampleIdx, step \in {0, 1}}

\* how far the length of an allocated buffer may be from BYTE_LEN
Slack == 1
\* freshly allocated buffers, every byte 0xAA
Buffers(g) ==
    {[i \in 1..len |-> 170] :
        len \in {l \in (BYTE_LEN(g) - Slack)..(BYTE_LEN(g) + Slack) : l >= 0}}

(***************************************************************************)
(* The state machine.                                                      *)
(***************************************************************************)
InitRest ==
    /\ impls = [name \in DOMAIN Decls |-> impl_struct_deser(Decls[name])]
    /\ gen = NoGen
    /\ pc = "input"
    /\ bytes = <<>>
    /\ before = <<>>
    /\ self = <<>>
    /\ out = <<>>
    /\ last = "none"

Init == (IsEnumInput(ast) \/ ast \in NamedInputs) /\ InitRest
InitIdent == IsIdentInput(ast) /\ InitRest

\* #[derive(StructDeser)]: derive_struct_deser runs impl_struct_deser
Derive ==
    /\ pc = "input"
    /\ gen' = impl_struct_deser(ast)
    /\ pc' = IF gen'.panic # "" THEN "rejected" ELSE "derived"
    /\ UNCHANGED <<impls, ast, bytes, before, self, out, last>>

\* the generated impls are compiled against the library
Compile ==
    /\ pc = "derived"
    /\ pc' = IF type_checks(gen) THEN "compiled" ELSE "compile_error"
    /\ UNCHANGED <<impls, ast, gen, bytes, before, self, out, last>>

\* the caller allocates a buffer
Alloc ==
    /\ pc = "compiled"
    /\ \E b \in Buffers(gen) : bytes' = b /\ before' = b
    /\ pc' = "alloc"
    /\ UNCHANGED <<impls, ast, gen, self, out, last>>

\* record.into_bytes(&mut bytes)
IntoBytes ==
    /\ pc = "alloc"
    /\ \E rec \in RecordValues(gen) :
          LET r == into_bytes(gen, rec, bytes)
          IN  /\ self' = rec
              /\ bytes' = r.bytes
              /\ pc' = IF r.panic THEN "panicked" ELSE "encoded"
    /\ before' = bytes
    /\ last' = "into_bytes"
    /\ UNCHANGED <<impls, ast, gen, out>>

\* Self::from_bytes(&bytes), on a fresh buffer or on the one just written
FromBytes ==
    /\ pc \in {"alloc", "encoded"}
    /\ LET r == from_bytes(gen, bytes)
       IN  /\ out' = r.val
           /\ pc' = IF r.panic THEN "panicked" ELSE "decoded"
    /\ before' = bytes
    /\ last' = IF pc = "encoded" THEN "into_bytes, from_bytes" ELSE "from_bytes"
    /\ UNCHANGED <<impls, ast, gen, bytes, self>>

Next == Derive \/ Compile \/ Alloc \/ IntoBytes \/ FromBytes
Spec == Init /\ [][Next]_vars

NextIdent == Derive \/ Compile
SpecIdent == InitIdent /\ [][NextIdent]_vars

(***************************************************************************)
(* Properties.                                                             *)
(***************************************************************************)
\* the derive accepted the input and the generated impls compiled
Built == pc \in {"compiled", "alloc", "encoded", "decoded", "panicked"}

\* the byte width of a field type as the documentation states it
Width(ty) ==
    CASE ty.k \in ByteInts          -> 1
      [] ty.k \in {"u16", "i16"}    -> 2
      [] ty.k \in {"u32", "i32"}    -> 4
      [] ty.k \in {"u64", "i64"}    -> 8
      [] ty.k = "arr"               -> ty.n
      [] OTHER                      -> BYTE_LEN(impls[ty.k])

\* the widths of the first n declared fields, added up
RECURSIVE SumWidths(_, _)
SumWidths(fields, n) ==
    IF n = 0 THEN 0 ELSE SumWidths(fields, n - 1) + Width(fields[n].ty)

HasMarker(field) == \E i \in 1..Len(field.attrs) : field.attrs[i] \in {"le", "be"}

\* C1 (round trip): whenever into_bytes is given a buffer of exactly BYTE_LEN
\* bytes it returns normally, and from_bytes on the buffer it wrote returns a
\* record equal, field by field, to the record that was written.
C1_RoundTrip ==
    /\ (last = "into_bytes" /\ Len(before) = BYTE_LEN(gen)) => pc = "encoded"
    /\ last = "into_bytes, from_bytes" =>
          /\ pc = "decoded"
          /\ Len(out) = Len(ast.fields)
          /\ \A i \in 1..Len(ast.fields) : out[i] = self[i]

\* the 14-integer tuple record of the tests went through into_bytes and from_bytes
C1_Witness ==
    /\ ast = IntegersTuple
    /\ last = "into_bytes, from_bytes"
    /\ pc = "decoded"
    /\ out = self
    /\ self[2] = -128

\* C2 (length mismatch): a call of from_bytes or into_bytes on a buffer whose
\* length differs from BYTE_LEN panics; it never returns normally.
C2_LengthMismatch ==
    (last # "none" /\ Len(before) # BYTE_LEN(gen)) => pc = "panicked"

\* into_bytes was called with a buffer one byte short and panicked
C2_Witness ==
    /\ last = "into_bytes"
    /\ Len(ast.fields) > 1
    /\ Len(before) = BYTE_LEN(gen) - 1
    /\ pc = "panicked"

\* C3 (length additivity): BYTE_LEN of a derived record is the sum of the
\* widths of its fields; the Identifier attribute adds nothing to it; the
\* 14-integer record of the tests has BYTE_LEN 58.
C3_LengthAdditivity ==
    Built =>
      /\ BYTE_LEN(gen) = SumWidths(ast.fields, Len(ast.fields))
      /\ BYTE_LEN(gen) = BYTE_LEN(impl_struct_deser([ast EXCEPT !.attrs = <<>>]))
      /\ ast \in {Integers, IntegersTuple} => BYTE_LEN(gen) = 58

\* the 14-integer record with its Identifier compiled, with BYTE_LEN 58
C3_Witness ==
    /\ pc = "compiled"
    /\ ast = Integers
    /\ gen.identifier.present
    /\ BYTE_LEN(gen) = 58

\* C4 (offset contiguity): the range emitted for field i, in the decoder and
\* in the encoder alike, starts at the sum of the widths of the fields before
\* it and is as long as its own width; the last range ends at BYTE_LEN.
C4_OffsetContiguity ==
    Built =>
      /\ Len(gen.deser_body) = Len(ast.fields)
      /\ Len(gen.ser_body) = Len(ast.fields)
      /\ \A i \in 1..Len(ast.fields) :
            \A e \in {gen.deser_body[i].slice, gen.ser_body[i].slice} :
               /\ sum_byte_len(e.lo) = SumWidths(ast.fields, i - 1)
               /\ sum_byte_len(e.hi) = sum_byte_len(e.lo) + Width(ast.fields[i].ty)
      /\ Len(ast.fields) > 0 =>
            sum_byte_len(gen.ser_body[Len(ast.fields)].slice.hi) = BYTE_LEN(gen)

\* a compiled record whose third field owns the bytes 3..7 after a 2-byte
\* and a 1-byte field
C4_Witness ==
    /\ pc = "compiled"
    /\ ast = Packet
    /\ sum_byte_len(gen.ser_body[3].slice.lo) = 3
    /\ sum_byte_len(gen.deser_body[3].slice.hi) = 7

\* byte j (0 the least significant) of the two's complement form of v
RECURSIVE ByteOf(_, _)
ByteOf(v, j) == IF j = 0 THEN v % 256 ELSE ByteOf(v \div 256, j - 1)

Zeros(n) == [i \in 1..n |-> 0]

\* C5 (byte order): into_bytes of { #[le] le: T, #[be] be: T } with both
\* fields v writes byte j of v at offset j of the first range and at offset
\* width - 1 - j of the second; for v = 42 the buffer is 42, zeros, zeros, 42.
C5_ByteOrder ==
    \A k \in OrderedInts : \A s \in SampleIdx :
       (/\ ast = test_primitive(k)
        /\ pc = "encoded"
        /\ self = <<Sample(T(k), s), Sample(T(k), s)>>) =>
          LET v == SampleInts[k][s]
              n == Width(T(k))
          IN  /\ Len(bytes) = 2 * n
              /\ \A j \in 0..(n - 1) :
                    /\ bytes[1 + j] = ByteOf(v, j)
                    /\ bytes[2 * n - j] = ByteOf(v, j)
              /\ v = 42 => bytes = <<42>> \o Zeros(2 * n - 2) \o <<42>>

\* the i64 pair of the tests was written with 42 in both fields: 16 bytes,
\* 42 first and last
C5_Witness ==
    /\ ast = test_primitive("i64")
    /\ pc = "encoded"
    /\ bytes = <<42, 0, 0, 0, 0, 0, 0, 0, 0, 0, 0, 0, 0, 0, 0, 42>>

HasConflict(field) ==
    /\ \E i \in 1..Len(field.attrs) : field.attrs[i] = "le"
    /\ \E i \in 1..Len(field.attrs) : field.attrs[i] = "be"

\* C6 (conflicting markers), as claimed: no encoder or decoder is produced
\* for a record with a field carrying both le and be.
C6_ConflictRejected ==
    (\E i \in 1..Len(ast.fields) : HasConflict(ast.fields[i])) => ~Built

UnmarkedWide(field) == field.ty.k \in OrderedInts /\ ~HasMarker(field)

\* C7 (missing byte order): a 2/4/8-byte integer field without le or be is
\* expanded to the FromBytes / IntoBytes calls, which its type does not
\* implement, so the record is never built.
C7_MissingByteOrder ==
    (\E i \in 1..Len(ast.fields) : UnmarkedWide(ast.fields[i])) =>
       /\ ~Built
       /\ pc \in {"derived", "compile_error"} =>
             \A i \in 1..Len(ast.fields) : UnmarkedWide(ast.fields[i]) =>
                /\ gen.deser_body[i].bo = "None"
                /\ gen.ser_body[i].bo = "None"
                /\ ~impl_FromBytes(ast.fields[i].ty)

\* a struct of one unmarked u32 was expanded and failed to compile
C7_Witness ==
    /\ ast = Struct(<<>>, <<F("u32", <<>>)>>)
    /\ pc = "compile_error"

\* C8 (zero fields), as claimed: no encoder or decoder is produced for a
\* record without fields, however it is declared.
C8_ZeroFieldRejected ==
    Len(ast.fields) = 0 => ~Built

OrderFree(ty) == ty.k \in ByteInts \/ ty.k = "arr" \/ ty.k \in DOMAIN Decls
MarkedOrderFree(field) == OrderFree(field.ty) /\ HasMarker(field)

\* the input with the markers of its order-free fields taken away
WithoutMarkers(input) ==
    [input EXCEPT !.fields =
        [i \in 1..Len(input.fields) |->
            IF OrderFree(input.fields[i].ty)
            THEN [input.fields[i] EXCEPT !.attrs = <<>>]
            ELSE input.fields[i]]]

\* C9 (marker on an order-free field), as claimed: the marker is ignored, so
\* an input that is built without the marker is built with it.
C9_MarkerIgnored ==
    (/\ \E i \in 1..Len(ast.fields) : MarkedOrderFree(ast.fields[i])
     /\ impl_struct_deser(WithoutMarkers(ast)).panic = ""
     /\ type_checks(impl_struct_deser(WithoutMarkers(ast)))) =>
        pc \notin {"rejected", "compile_error"}

\* C9, amended: a le or be marker on a u8, i8, byte block or nested record
\* field expands to the FromBytesOrdered / IntoBytesOrdered calls, which these
\* types do not implement, so the record is never built.
C9_MarkerNotIgnored ==
    (\E i \in 1..Len(ast.fields) : MarkedOrderFree(ast.fields[i])) =>
       /\ ~Built
       /\ pc \in {"derived", "compile_error"} =>
             \A i \in 1..Len(ast.fields) : MarkedOrderFree(ast.fields[i]) =>
                /\ gen.deser_body[i].bo # "None"
                /\ gen.ser_body[i].bo # "None"
                /\ ~impl_FromBytesOrdered(ast.fields[i].ty)

\* a struct of one le-marked u8 was expanded and failed to compile
C9_Witness ==
    /\ ast = Struct(<<>>, <<F("u8", <<"le">>)>>)
    /\ pc = "compile_error"

\* the literal the attribute gives for name: that of the last such item
RECURSIVE Given(_, _)
Given(nested, name) ==
    IF nested = <<>> THEN NoLit
    ELSE IF nested[Len(nested)].name = name THEN nested[Len(nested)].lit
    ELSE Given(SubSeq(nested, 1, Len(nested) - 1), name)

\* attr is a #[struct_deser(...)] giving identifier or identifier_type
GivesIdentifier(attr) ==
    /\ attr.name = "struct_deser"
    /\ attr.list
    /\ \/ Given(attr.nested, "identifier") # NoLit
       \/ Given(attr.nested, "identifier_type") # NoLit

ExactlyOne(val, ty) == (val = NoLit) # (ty = NoLit)
BothStr(val, ty) == val.kind = "Str" /\ ty.kind = "Str"

\* C10 (identifier), as claimed, for a record with one #[struct_deser(...)]:
\* exactly one of the two given is rejected; both given as strings emits the
\* Identifier with the given value; neither given emits none and goes on.
C10_BothOrNeither ==
    (/\ pc # "input"
     /\ Len(ast.attrs) = 1
     /\ ast.attrs[1].name = "struct_deser"
     /\ ast.attrs[1].list) =>
        LET val == Given(ast.attrs[1].nested, "identifier")
            ty == Given(ast.attrs[1].nested, "identifier_type")
        IN  /\ ExactlyOne(val, ty) => pc = "rejected"
            /\ BothStr(val, ty) =>
                  /\ pc # "rejected"
                  /\ gen.identifier = [present |-> TRUE, ty |-> ty.text, val |-> val.text]
            /\ (val = NoLit /\ ty = NoLit) =>
                  /\ pc # "rejected"
                  /\ ~gen.identifier.present

IdentifierPanics ==
    {"expected type", "expected expression",
     "Identifier and it's type must be inside string",
     "Both identifier and type must be specified or none of them"}

\* C10, amended: the first #[struct_deser(...)] that gives identifier or
\* identifier_type decides.  Exactly one given is rejected; both given as
\* strings that parse as a type and an expression emit the Identifier with
\* the given type and value; a string that does not parse is rejected.  When
\* no attribute gives either, no Identifier is emitted and the derive goes on.
C10_Identifier ==
    pc # "input" =>
       LET giving == {i \in 1..Len(ast.attrs) : GivesIdentifier(ast.attrs[i])}
       IN  IF giving = {}
           THEN /\ pc # "rejected"
                /\ ~gen.identifier.present
           ELSE LET first == CHOOSE i \in giving : \A j \in giving : i <= j
                    val == Given(ast.attrs[first].nested, "identifier")
                    ty == Given(ast.attrs[first].nested, "identifier_type")
                IN  /\ ExactlyOne(val, ty) =>
                          /\ pc = "rejected"
                          /\ gen.panic = "Both identifier and type must be specified or none of them"
                    /\ (BothStr(val, ty) /\ parse_type(ty.text) /\ parse_expr(val.text)) =>
                          /\ pc # "rejected"
                          /\ gen.identifier = [present |-> TRUE, ty |-> ty.text, val |-> val.text]
                    /\ (BothStr(val, ty) /\ ~(parse_type(ty.text) /\ parse_expr(val.text))) =>
                          /\ pc = "rejected"
                          /\ gen.panic \in {"expected type", "expected expression"}

\* a record whose only attribute gives identifier_type alone was rejected
C10_Witness ==
    /\ pc = "rejected"
    /\ Len(ast.attrs) = 1
    /\ Given(ast.attrs[1].nested, "identifier") = NoLit
    /\ Given(ast.attrs[1].nested, "identifier_type") = Lit("Str", "u8")
    /\ gen.panic = "Both identifier and type must be specified or none of them"

\* records all of whose fields are unmarked byte blocks
BlocksOnly(input) ==
    /\ Len(input.fields) > 0
    /\ \A i \in 1..Len(input.fields) :
          input.fields[i].ty.k = "arr" /\ ~HasMarker(input.fields[i])

\* bytes lo+1 .. lo+n of the buffer
Range(b, lo, n) == SubSeq(b, lo + 1, lo + n)

\* C11 (byte blocks of every size), as claimed: a record whose fields are
\* byte blocks, of whatever sizes, is given a codec whose BYTE_LEN is the sum
\* of the sizes.
C11_EveryBlockSize ==
    (BlocksOnly(ast) /\ pc \notin {"input", "derived"}) =>
       /\ Built
       /\ BYTE_LEN(gen) = SumWidths(ast.fields, Len(ast.fields))

\* the lengths the library lists: 0 to 256, and the powers of two from 2^9 to 2^22
Listed(n) == n \in 0..256 \/ \E k \in 9..22 : n = 2^k

\* largest array length probed one by one
MaxBlock == 600
\* the lengths probed: every one up to MaxBlock, and every power of two up
\* to 2^23 with its two neighbours
ProbeSizes == 0..MaxBlock \cup {2^k + d : k \in 9..23, d \in {-1, 0, 1}}

\* C11, amended: the byte-block entries are those of the sizes 0..256 and of
\* the powers of two 512..4194304, no others.  A record of byte-block fields
\* is given a codec exactly when every size is one of these; its BYTE_LEN is
\* then the sum of the sizes, into_bytes copies each block verbatim into its
\* range and from_bytes copies each range verbatim into the block.  A block
\* of any other size (257, 300) stops the record from compiling.
C11_ListedBlockSizes ==
    /\ \A n \in ProbeSizes : impl_FromBytes(Arr(n)) <=> Listed(n)
    /\ (BlocksOnly(ast) /\ pc \notin {"input", "derived"}) =>
          /\ Built <=> \A i \in 1..Len(ast.fields) : Listed(ast.fields[i].ty.n)
          /\ Built => BYTE_LEN(gen) = SumWidths(ast.fields, Len(ast.fields))
          /\ pc = "encoded" =>
                \A i \in 1..Len(ast.fields) :
                   Range(bytes, SumWidths(ast.fields, i - 1), ast.fields[i].ty.n) = self[i]
          /\ pc = "decoded" =>
                \A i \in 1..Len(ast.fields) :
                   out[i] = Range(bytes, SumWidths(ast.fields, i - 1), ast.fields[i].ty.n)

\* a record of one 512-byte block was written and read back
C11_Witness ==
    /\ ast = Block(512)
    /\ last = "into_bytes, from_bytes"
    /\ pc = "decoded"
    /\ Len(bytes) = 512
    /\ bytes = self[1]
    /\ out[1] = bytes

\* some field of the record is itself a derived record
HasNested(input) == \E i \in 1..Len(input.fields) : input.fields[i].ty.k \in DOMAIN Decls

\* C12 (check before write): a call of into_bytes on a buffer whose length
\* differs from BYTE_LEN panics and leaves every byte of the buffer as it was
\* before the call, no field having been written; so too for a record with
\* nested record fields.
C12_CheckBeforeWrite ==
    (last = "into_bytes" /\ Len(before) # BYTE_LEN(gen)) =>
       /\ pc = "panicked"
       /\ Len(bytes) = Len(before)
       /\ \A i \in 1..Len(before) : bytes[i] = before[i]

\* into_bytes of a record with a nested record field, whose values differ
\* from the fill of the buffer, panicked on a buffer one byte too long and
\* left the 13 bytes as they were
C12_Witness ==
    /\ ast = Struct(<<>>, <<F("Wrap", <<>>), F("u32", <<"be">>), Field("", Arr(3), <<>>)>>)
    /\ HasNested(ast)
    /\ last = "into_bytes"
    /\ pc = "panicked"
    /\ Len(before) = BYTE_LEN(gen) + 1
    /\ Len(before) = 13
    /\ self[1][1][1] = 42
    /\ bytes = before

====
